---- MODULE Spec2Model ----
(***************************************************************************)
(* A model of helpers.py: the pickle cache (load_or_download), the loaders *)
(* of the market, metal, yield and recession series, the merge of          *)
(* load_all_data, and the interval extraction of get_recession_periods and *)
(* get_inversion_periods.                                                  *)
(*                                                                         *)
(* Dates are day numbers counted from DEFAULT_START_DATE (1960-01-01 is    *)
(* day 0) on the Gregorian calendar; months are numbered from January 1960 *)
(* (month 0).  A Series is a sequence of rows [t |-> date, v |-> value]    *)
(* with strictly increasing dates; a value is NaN or a number.             *)
(***************************************************************************)
EXTENDS Integers, Sequences, FiniteSets, TLC

VARIABLES
    pc,         \* position of the running call
    input,      \* argument of the function under call
    output,     \* its return value
    fill_pad,   \* whether the installed pandas forward-fills in pct_change
    cache,      \* data_cache/*.pkl: key -> pickled payload or NoEntry
    wb_file,    \* data_cache/CMO-Historical-Data-Monthly.xlsx
    loc,        \* local variables of the running load_all_data
    warned,     \* the "Warning: ..." lines printed by the running call
    hist,       \* per cache key: what callers of load_or_download observed
    runs        \* runs of load_all_data started so far

vars == <<pc, input, output, fill_pad, cache, wb_file, loc, warned, hist, runs>>

\* A value is a tuple: <<>> is the missing value (NaN), <<x>> the integer x,
\* <<n, d>> the fraction n/d in lowest terms with d > 0.
NaN == <<>>
Val(x) == <<x>>
Num(v) == v[1]
NoResult == <<>>

Min(S) == CHOOSE x \in S : \A y \in S : x <= y
Max(S) == CHOOSE x \in S : \A y \in S : x >= y

(***************************************************************************)
(* Bounds of the model.                                                    *)
(***************************************************************************)
MaxRows == 3        \* rows of a table handed to the interval extraction
NumMonths == 3      \* calendar months a daily series may cover
MaxLen == 8         \* entries of a monthly series handed to pct_change
ScenarioRows == 12  \* rows of the month-end scenario table
MaxStart == 14      \* first month of the scenario table ranges over 0..MaxStart
SpliceMonths == 3   \* months the workbook and the Yahoo series may cover
MergeMonths == 1    \* month-ends the series handed to the merge may hold
MaxRuns == 2        \* runs of load_all_data over one cache directory

(***************************************************************************)
(* The calendar pandas keeps.                                              *)
(***************************************************************************)
EpochYear == 1960

IsLeap(y) == (y % 4 = 0 /\ y % 100 # 0) \/ y % 400 = 0

DaysInMonth(m) ==
    LET y == EpochYear + (m \div 12)
        mo == (m % 12) + 1
    IN  IF mo = 2 THEN (IF IsLeap(y) THEN 29 ELSE 28)
        ELSE IF mo \in {4, 6, 9, 11} THEN 30 ELSE 31

RECURSIVE DaysBefore(_)
DaysBefore(m) == IF m = 0 THEN 0 ELSE DaysBefore(m - 1) + DaysInMonth(m - 1)

\* the first day of each month of the model's horizon, computed once
MonthStarts == [m \in 0..(ScenarioRows + MaxStart + SpliceMonths + NumMonths + MaxLen) |->
                   DaysBefore(m)]

MonthStart(m) == MonthStarts[m]

\* the month-end label resample('ME') gives month m
MonthEnd(m) == MonthStart(m + 1) - 1

RECURSIVE MonthFrom(_, _)
MonthFrom(d, m) == IF d <= MonthEnd(m) THEN m ELSE MonthFrom(d, m + 1)

\* the calendar month holding day d
MonthOf(d) == MonthFrom(d, 0)

(***************************************************************************)
(* Interval extraction: get_recession_periods and get_inversion_periods.   *)
(***************************************************************************)
GAP_TOLERANCE_DAYS == 45

\* dates.diff() > pd.Timedelta(days=tol): the first difference is NaT, and
\* NaT > anything is False
GapFlagsGe(dates, tol) ==
    [i \in 1..Len(dates) |-> IF i = 1 THEN FALSE ELSE dates[i] - dates[i - 1] >= tol]

GapFlags(dates, tol) ==
    [i \in 1..Len(dates) |-> IF i = 1 THEN FALSE ELSE dates[i] - dates[i - 1] > tol]

\* gaps.cumsum(): True counts 1
CumSum(flags) ==
    [i \in 1..Len(flags) |-> Cardinality({j \in 1..i : flags[j]})]

\* groups.unique(): the distinct values in order of first appearance
RECURSIVE Unique(_)
Unique(s) ==
    IF Len(s) = 0 THEN <<>>
    ELSE LET init == Unique(SubSeq(s, 1, Len(s) - 1))
             x == s[Len(s)]
         IN  IF \E i \in 1..Len(init) : init[i] = x THEN init ELSE Append(init, x)

GroupPeriodsFirstTwice(dates, tol) ==
    LET groups == CumSum(GapFlags(dates, tol))
        ids == Unique(groups)
    IN  [k \in 1..Len(ids) |->
            LET group_dates == SelectSeq([i \in 1..Len(dates) |-> <<dates[i], groups[i]>>],
                                         LAMBDA p : p[2] = ids[k])
            IN  <<group_dates[1][1], group_dates[1][1]>>]

\* the for loop: one (first, last) pair per group id
GroupPeriods(dates, tol) ==
    LET groups == CumSum(GapFlags(dates, tol))
        ids == Unique(groups)
    IN  [k \in 1..Len(ids) |->
            LET group_dates == SelectSeq([i \in 1..Len(dates) |-> <<dates[i], groups[i]>>],
                                         LAMBDA p : p[2] = ids[k])
            IN  <<group_dates[1][1], group_dates[Len(group_dates)][1]>>]

IndexOf(rows) == [i \in 1..Len(rows) |-> rows[i].t]

\* df['Recession'] == 1 and df[spread_col] < 0: NaN compares False
IsRecession(r) == r.Recession = Val(1)
IsInverted(r) == r.Spread # NaN /\ Num(r.Spread) < 0

\* the body of get_recession_periods with its literal 45 as a parameter
RecessionPeriodsTol(df, tol) ==
    IF "Recession" \notin df.columns THEN <<>>
    ELSE LET rec == SelectSeq(df.rows, IsRecession)
         IN  IF Len(rec) = 0 THEN <<>>
             ELSE GroupPeriods(IndexOf(rec), tol)

get_recession_periods(df) == RecessionPeriodsTol(df, GAP_TOLERANCE_DAYS)

get_inversion_periods(df) ==
    LET inverted == SelectSeq(df.rows, IsInverted)
    IN  IF Len(inverted) = 0 THEN <<>>
        ELSE GroupPeriods(IndexOf(inverted), GAP_TOLERANCE_DAYS)

(***************************************************************************)
(* Interval extraction on every small date-sorted table.                   *)
(***************************************************************************)
RowGaps == {20, 45, 46}
RecessionValues == {NaN, Val(0), Val(1)}
SpreadValues == {Val(-1), Val(0)}

IdlePipeline ==
    /\ cache = <<>>
    /\ wb_file = <<>>
    /\ loc = <<>>
    /\ warned = {}
    /\ hist = <<>>
    /\ runs = 0

pipeVars == <<cache, wb_file, loc, warned, hist, runs>>

InitIntervals ==
    /\ pc = "build"
    /\ \E cols \in {{"Recession", "Yield Spread"}, {"Yield Spread"}} :
           input = [columns |-> cols, rows |-> <<>>]
    /\ output = NoResult
    /\ fill_pad = FALSE
    /\ IdlePipeline

\* one more row of the date-sorted table
AppendRow ==
    /\ pc = "build"
    /\ Len(input.rows) < MaxRows
    /\ \E g \in RowGaps, s \in SpreadValues,
          r \in (IF "Recession" \in input.columns THEN RecessionValues ELSE {NaN}) :
           LET t == IF Len(input.rows) = 0 THEN 0
                    ELSE input.rows[Len(input.rows)].t + g
           IN  input' = [input EXCEPT !.rows =
                            Append(@, [t |-> t, Recession |-> r, Spread |-> s])]
    /\ UNCHANGED <<pc, output, fill_pad, pipeVars>>

CallRecessionPeriods ==
    /\ pc = "build"
    /\ output' = get_recession_periods(input)
    /\ pc' = "recession_periods"
    /\ UNCHANGED <<input, fill_pad, pipeVars>>

CallInversionPeriods ==
    /\ pc = "build"
    /\ output' = get_inversion_periods(input)
    /\ pc' = "inversion_periods"
    /\ UNCHANGED <<input, fill_pad, pipeVars>>

NextIntervals == AppendRow \/ CallRecessionPeriods \/ CallInversionPeriods

SpecIntervals == InitIntervals /\ [][NextIntervals]_vars

\* The explicit scan of the specification: walk the satisfying dates, keep the
\* start of the current interval and the last date seen, close the interval
\* when the gap to the next satisfying date exceeds the tolerance.
RECURSIVE ScanFrom(_, _, _, _, _)
ScanFrom(dates, i, start, last, tol) ==
    IF i > Len(dates) THEN << <<start, last>> >>
    ELSE IF dates[i] - last > tol
         THEN << <<start, last>> >> \o ScanFrom(dates, i + 1, dates[i], dates[i], tol)
         ELSE ScanFrom(dates, i + 1, start, dates[i], tol)

Scan(dates, tol) ==
    IF Len(dates) = 0 THEN <<>> ELSE ScanFrom(dates, 2, dates[1], dates[1], tol)

SatisfyingDates(df, col) ==
    IF col = "Recession"
    THEN IF "Recession" \in df.columns THEN IndexOf(SelectSeq(df.rows, IsRecession)) ELSE <<>>
    ELSE IndexOf(SelectSeq(df.rows, IsInverted))

\* the properties that follow for the intervals found over the satisfying dates
WellFormedPeriods(periods, dates, tol) ==
    /\ \A k \in 1..Len(periods) :
          /\ periods[k][1] <= periods[k][2]
          /\ \E i \in 1..Len(dates) : dates[i] = periods[k][1]
          /\ \E i \in 1..Len(dates) : dates[i] = periods[k][2]
    /\ \A k \in 1..(Len(periods) - 1) :
          /\ periods[k][2] < periods[k + 1][1]
          /\ periods[k + 1][1] - periods[k][2] > tol
    /\ \A i \in 1..Len(dates) :
          Cardinality({k \in 1..Len(periods) :
                          periods[k][1] <= dates[i] /\ dates[i] <= periods[k][2]}) = 1
    /\ \A i \in 1..(Len(dates) - 1) :
          (\E k \in 1..Len(periods) :
              periods[k][1] <= dates[i] /\ dates[i + 1] <= periods[k][2])
          => dates[i + 1] - dates[i] <= tol
    /\ (Len(dates) = 0 => periods = <<>>)

\* C7: get_recession_periods and get_inversion_periods return what the explicit
\* scan over the dates satisfying the predicate returns with a tolerance of 45
\* days: ascending intervals whose endpoints satisfy the predicate, every
\* satisfying date in exactly one of them, gaps inside an interval at most 45
\* days, gaps between intervals more than 45 days, none when no date satisfies.
C7_IntervalsMatchScan ==
    /\ pc = "recession_periods" =>
          /\ output = Scan(SatisfyingDates(input, "Recession"), 45)
          /\ WellFormedPeriods(output, SatisfyingDates(input, "Recession"), 45)
    /\ pc = "inversion_periods" =>
          /\ output = Scan(SatisfyingDates(input, "Yield Spread"), 45)
          /\ WellFormedPeriods(output, SatisfyingDates(input, "Yield Spread"), 45)

\* two recession intervals, the first of two dates 45 days apart, the second
\* starting 46 days after it
C7_Witness ==
    /\ pc = "recession_periods"
    /\ output = << <<0, 45>>, <<91, 91>> >>

(***************************************************************************)
(* The month-end scenario: a table of ScenarioRows consecutive month-ends  *)
(* whose recession flag is 1 in two months with one month of 0 between.    *)
(***************************************************************************)
Tolerances == {44, 45, 46, 58, 59, 60, 61, 62, 63}

ScenarioTable(start, first) ==
    [columns |-> {"Recession", "Yield Spread"},
     rows |-> [k \in 1..ScenarioRows |->
                  [t |-> MonthEnd(start + k - 1),
                   Recession |-> IF k \in {first, first + 2} THEN Val(1) ELSE Val(0),
                   Spread |-> Val(0)]]]

InitScenario ==
    /\ pc = "scenario"
    /\ \E start \in 0..MaxStart, first \in 1..(ScenarioRows - 2), tol \in Tolerances :
           input = [start |-> start, first |-> first, tol |-> tol]
    /\ output = NoResult
    /\ fill_pad = FALSE
    /\ IdlePipeline

CallScenario ==
    /\ pc = "scenario"
    /\ output' = RecessionPeriodsTol(ScenarioTable(input.start, input.first), input.tol)
    /\ pc' = "scenario_periods"
    /\ UNCHANGED <<input, fill_pad, pipeVars>>

NextScenario == CallScenario

SpecScenario == InitScenario /\ [][NextScenario]_vars

FirstTrue == MonthEnd(input.start + input.first - 1)
SecondTrue == MonthEnd(input.start + input.first + 1)
GapWidth == SecondTrue - FirstTrue

\* C10 as stated: one interval from the first to the second true month for
\* every tolerance of at least 45 days, two intervals for a tolerance below
\* the gap width.
C10_Original ==
    pc = "scenario_periods" =>
        /\ input.tol >= 45 => output = << <<FirstTrue, SecondTrue>> >>
        /\ input.tol < GapWidth => Len(output) = 2

\* C10 as amended: the two true month-ends are 59 to 62 days apart; the
\* extraction yields the one interval from the first to the second exactly
\* when the tolerance is at least that gap, and the two one-month intervals
\* when it is below it, as it is at the 45 days of the code.
C10_Amended ==
    pc = "scenario_periods" =>
        /\ GapWidth \in 59..62
        /\ input.tol >= GapWidth => output = << <<FirstTrue, SecondTrue>> >>
        /\ input.tol < GapWidth =>
              output = << <<FirstTrue, FirstTrue>>, <<SecondTrue, SecondTrue>> >>

\* at the code's 45 days the two true months come out as two intervals
C10_Witness ==
    /\ pc = "scenario_periods"
    /\ input.tol = GAP_TOLERANCE_DAYS
    /\ Len(output) = 2

(***************************************************************************)
(* Monthly resampling: Series.resample('ME').last().                       *)
(***************************************************************************)
\* the bins run from the month of the first observation to the month of the
\* last; last() takes the last non-missing value of a bin, NaN for a bin
\* without one
ResampleLastSkipEmpty(s) ==
    LET months == {MonthOf(s[i].t) : i \in 1..Len(s)}
        valid(m) == {i \in 1..Len(s) : MonthOf(s[i].t) = m /\ s[i].v # NaN}
        row(m) == [t |-> MonthEnd(m),
                   v |-> IF valid(m) = {} THEN NaN ELSE s[Max(valid(m))].v]
        all == IF Len(s) = 0 THEN <<>>
               ELSE [k \in 1..(Max(months) - Min(months) + 1) |-> row(Min(months) + k - 1)]
    IN  SelectSeq(all, LAMBDA r : MonthOf(r.t) \in months)

ResampleLast(s) ==
    IF Len(s) = 0 THEN <<>>
    ELSE LET m0 == MonthOf(s[1].t)
             m1 == MonthOf(s[Len(s)].t)
             valid(m) == {i \in 1..Len(s) : MonthOf(s[i].t) = m /\ s[i].v # NaN}
         IN  [k \in 1..(m1 - m0 + 1) |->
                 LET m == m0 + k - 1
                 IN  [t |-> MonthEnd(m),
                      v |-> IF valid(m) = {} THEN NaN ELSE s[Max(valid(m))].v]]

ObsDays == {5, 20}
ObsValues == {NaN, Val(1), Val(2)}
CandidateDates == {MonthStart(m) + d - 1 : m \in 0..(NumMonths - 1), d \in ObsDays}

InitMonthly ==
    /\ pc = "observe"
    /\ input = <<>>
    /\ output = NoResult
    /\ fill_pad = FALSE
    /\ IdlePipeline

\* the provider's next daily observation
AppendObservation ==
    /\ pc = "observe"
    /\ \E t \in CandidateDates, v \in ObsValues :
          /\ Len(input) > 0 => t > input[Len(input)].t
          /\ input' = Append(input, [t |-> t, v |-> v])
    /\ UNCHANGED <<pc, output, fill_pad, pipeVars>>

CallResample ==
    /\ pc = "observe"
    /\ output' = ResampleLast(input)
    /\ pc' = "monthly"
    /\ UNCHANGED <<input, fill_pad, pipeVars>>

NextMonthly == AppendObservation \/ CallResample

SpecMonthly == InitMonthly /\ [][NextMonthly]_vars

ObservedMonths == {MonthOf(input[i].t) : i \in 1..Len(input)}
LastObservation(m) == Max({i \in 1..Len(input) : MonthOf(input[i].t) = m})

\* C8 as stated: one row per calendar month holding an observation, valued by
\* the last observation of the month, and no row for any other month.
C8_Original ==
    pc = "monthly" =>
        /\ Len(output) = Cardinality(ObservedMonths)
        /\ {MonthOf(output[k].t) : k \in 1..Len(output)} = ObservedMonths
        /\ \A k \in 1..Len(output) :
              /\ output[k].t = MonthEnd(MonthOf(output[k].t))
              /\ MonthOf(output[k].t) \in ObservedMonths
                    => output[k].v = input[LastObservation(MonthOf(output[k].t))].v

\* C8 as amended: one row, labelled by the month-end, for every calendar month
\* from the month of the first observation to the month of the last, in
\* ascending order; its value is that of the last non-missing observation of
\* the month, and it is a row holding the missing value when the month has no
\* non-missing observation, the months without any observation that lie
\* between two observed months included; an empty series gives no row.
C8_Amended ==
    pc = "monthly" =>
        /\ Len(input) = 0 => output = <<>>
        /\ Len(input) > 0 =>
              /\ {MonthOf(output[k].t) : k \in 1..Len(output)}
                    = Min(ObservedMonths)..Max(ObservedMonths)
              /\ Len(output) = Max(ObservedMonths) - Min(ObservedMonths) + 1
        /\ \A k \in 1..Len(output) :
              /\ output[k].t = MonthEnd(MonthOf(output[k].t))
              /\ k > 1 => output[k - 1].t < output[k].t
              /\ \/ /\ output[k].v = NaN
                    /\ \A i \in 1..Len(input) :
                          MonthOf(input[i].t) = MonthOf(output[k].t) => input[i].v = NaN
                 \/ \E i \in 1..Len(input) :
                       /\ MonthOf(input[i].t) = MonthOf(output[k].t)
                       /\ input[i].v # NaN
                       /\ output[k].v = input[i].v
                       /\ \A j \in (i + 1)..Len(input) :
                             MonthOf(input[j].t) = MonthOf(output[k].t) => input[j].v = NaN

\* a month without any observation between two observed months has its row,
\* holding the missing value
C8_Witness ==
    /\ pc = "monthly"
    /\ \E k \in 2..(Len(output) - 1) :
          /\ MonthOf(output[k].t) \notin ObservedMonths
          /\ output[k].v = NaN
          /\ output[k - 1].v # NaN
          /\ output[k + 1].v # NaN

(***************************************************************************)
(* Percent change: Series.pct_change(periods=6) * 100.                     *)
(***************************************************************************)
PCT_PERIODS == 6

RECURSIVE GCD(_, _)
GCD(a, b) == IF b = 0 THEN a ELSE GCD(b, a % b)

Abs(x) == IF x < 0 THEN -x ELSE x

\* the fraction n/d (d # 0) in lowest terms with a positive denominator
Frac(n, d) ==
    LET g == GCD(Abs(n), Abs(d))
        sgn == IF d < 0 THEN -1 ELSE 1
    IN  <<(sgn * n) \div g, (sgn * d) \div g>>

AsFrac(v) == IF Len(v) = 1 THEN <<v[1], 1>> ELSE v

\* the forward fill of fill_method='pad': a missing value takes the last
\* non-missing value before it, and stays missing when there is none
Pad(s) ==
    [i \in 1..Len(s) |->
        LET known == {j \in 1..i : s[j].v # NaN}
        IN  [t |-> s[i].t, v |-> IF known = {} THEN NaN ELSE s[Max(known)].v]]

\* (data / data.shift(periods) - 1) * 100 on positive values
PctOf(cur, prev) ==
    LET a == AsFrac(cur)
        b == AsFrac(prev)
        q == Frac(a[1] * b[2], a[2] * b[1])
        r == Frac(q[1] - q[2], q[2])
    IN  Frac(r[1] * 100, r[2])

\* pct_change without a fill_method: pandas before 3.0 pads first (and warns
\* that the default is deprecated), pandas 3.0 and later does not fill
pct_change(s, periods, pad) ==
    LET data == IF pad THEN Pad(s) ELSE s
    IN  [i \in 1..Len(s) |->
            [t |-> s[i].t,
             v |-> IF i <= periods \/ data[i].v = NaN \/ data[i - periods].v = NaN
                   THEN NaN
                   ELSE PctOf(data[i].v, data[i - periods].v)]]

MonthlyValues == {NaN, Val(2), Val(3)}

InitPct ==
    /\ pc = "monthly_series"
    /\ input = <<>>
    /\ output = NoResult
    /\ fill_pad \in BOOLEAN
    /\ IdlePipeline

\* the next month-end entry of the monthly series
AppendMonth ==
    /\ pc = "monthly_series"
    /\ Len(input) < MaxLen
    /\ \E v \in MonthlyValues :
          input' = Append(input, [t |-> MonthEnd(Len(input)), v |-> v])
    /\ UNCHANGED <<pc, output, fill_pad, pipeVars>>

CallPctChange ==
    /\ pc = "monthly_series"
    /\ output' = pct_change(input, PCT_PERIODS, fill_pad)
    /\ pc' = "pct"
    /\ UNCHANGED <<input, fill_pad, pipeVars>>

NextPct == AppendMonth \/ CallPctChange

SpecPct == InitPct /\ [][NextPct]_vars

\* C9: the 6-month percent change at entry i is non-missing exactly when i is
\* past the first 6 entries and the values at i and at i - 6 are both
\* non-missing, and then it is 100 * (v[i] - v[i-6]) / v[i-6]; a series of 5
\* entries has only missing outputs, one of 7 a non-missing output at most at
\* its 7th entry.
C9_PctBoundary ==
    pc = "pct" =>
        /\ Len(output) = Len(input)
        /\ \A i \in 1..Len(input) :
              /\ output[i].v # NaN <=>
                    (i > 6 /\ input[i].v # NaN /\ input[i - 6].v # NaN)
              /\ output[i].v # NaN =>
                    output[i].v = Frac(100 * (Num(input[i].v) - Num(input[i - 6].v)),
                                       Num(input[i - 6].v))

(***************************************************************************)
(* The splice of load_gold_silver_data: World Bank history, Yahoo Finance  *)
(* for the months after it.                                                *)
(***************************************************************************)
HasRow(s, t) == \E i \in 1..Len(s) : s[i].t = t
ValueAt(s, t) == s[CHOOSE i \in 1..Len(s) : s[i].t = t].v

\* series[date] = value: overwrite the row of that date, or add one
SetItem(s, t, v) ==
    IF HasRow(s, t)
    THEN [i \in 1..Len(s) |-> IF s[i].t = t THEN [t |-> t, v |-> v] ELSE s[i]]
    ELSE Append(s, [t |-> t, v |-> v])

\* Series.sort_index() of a series with unique dates
RECURSIVE SortIndex(_)
SortIndex(s) ==
    IF Len(s) = 0 THEN <<>>
    ELSE LET first == CHOOSE i \in 1..Len(s) : \A j \in 1..Len(s) : s[i].t <= s[j].t
         IN  <<s[first]>> \o SortIndex(SelectSeq(s, LAMBDA r : r.t # s[first].t))

\* Series.dropna()
DropNa(s) == SelectSeq(s, LAMBDA r : r.v # NaN)

RECURSIVE CombineFromAtOrAfter(_, _, _, _)
CombineFromAtOrAfter(monthly, yf_monthly, wb_end_date, i) ==
    IF i > Len(yf_monthly) THEN monthly
    ELSE CombineFromAtOrAfter(
             IF yf_monthly[i].t >= wb_end_date /\ yf_monthly[i].v # NaN
             THEN SetItem(monthly, yf_monthly[i].t, yf_monthly[i].v)
             ELSE monthly,
             yf_monthly, wb_end_date, i + 1)

\* for date in yf_monthly.index:
\*     if date > wb_end_date and pd.notna(yf_monthly[date]): monthly[date] = ...
RECURSIVE CombineFrom(_, _, _, _)
CombineFrom(monthly, yf_monthly, wb_end_date, i) ==
    IF i > Len(yf_monthly) THEN monthly
    ELSE CombineFrom(
             IF yf_monthly[i].t > wb_end_date /\ yf_monthly[i].v # NaN
             THEN SetItem(monthly, yf_monthly[i].t, yf_monthly[i].v)
             ELSE monthly,
             yf_monthly, wb_end_date, i + 1)

\* lines 143 and 168-189, given the two workbook columns and the two monthly
\* Yahoo series; wb_gold.dropna().index[-1] raises IndexError when the gold
\* column holds no value, and so does silver_monthly.dropna().index[0] of the
\* printed range when the spliced silver series holds none
SpliceGoldSilver(wb_gold, wb_silver, yf_gold_monthly, yf_silver_monthly) ==
    IF Len(DropNa(wb_gold)) = 0
    THEN [raised |-> "IndexError"]
    ELSE LET wb_end_date == DropNa(wb_gold)[Len(DropNa(wb_gold))].t
             silver_monthly == SortIndex(CombineFrom(wb_silver, yf_silver_monthly,
                                                     wb_end_date, 1))
         IN  IF Len(DropNa(silver_monthly)) = 0
             THEN [raised |-> "IndexError"]
             ELSE [raised |-> "",
                   wb_end_date |-> wb_end_date,
                   gold_monthly |-> SortIndex(CombineFrom(wb_gold, yf_gold_monthly,
                                                          wb_end_date, 1)),
                   silver_monthly |-> silver_monthly]

WorkbookValues == {NaN, Val(1)}
YahooValues == {NaN, Val(2)}

MonthlySeries(a, b, vals) == [k \in 1..(b - a + 1) |-> [t |-> MonthEnd(a + k - 1), v |-> vals[a + k - 1]]]

InitSplice ==
    /\ pc = "workbook"
    /\ input = [wb_gold |-> <<>>, wb_silver |-> <<>>,
                yf_gold_monthly |-> <<>>, yf_silver_monthly |-> <<>>]
    /\ output = NoResult
    /\ fill_pad = FALSE
    /\ IdlePipeline

\* the next monthly row of the workbook, with its Gold and Silver cells
AppendWorkbookRow ==
    /\ pc = "workbook"
    /\ Len(input.wb_gold) < SpliceMonths
    /\ \E g \in WorkbookValues, sv \in WorkbookValues :
          LET t == MonthEnd(Len(input.wb_gold))
          IN  input' = [input EXCEPT !.wb_gold = Append(@, [t |-> t, v |-> g]),
                                     !.wb_silver = Append(@, [t |-> t, v |-> sv])]
    /\ UNCHANGED <<pc, output, fill_pad, pipeVars>>

\* the two Yahoo downloads (or cache entries) cover the same months
CallSplice ==
    /\ pc = "workbook"
    /\ \E a \in 0..(SpliceMonths - 1) : \E b \in (a - 1)..(SpliceMonths - 1) :
          \E gv \in [a..b -> YahooValues], sv \in [a..b -> YahooValues] :
             /\ input' = [input EXCEPT !.yf_gold_monthly = MonthlySeries(a, b, gv),
                                        !.yf_silver_monthly = MonthlySeries(a, b, sv)]
             /\ output' = SpliceGoldSilver(input.wb_gold, input.wb_silver,
                                           MonthlySeries(a, b, gv), MonthlySeries(a, b, sv))
    /\ pc' = "spliced"
    /\ UNCHANGED <<fill_pad, pipeVars>>

NextSplice == AppendWorkbookRow \/ CallSplice

SpecSplice == InitSplice /\ [][NextSplice]_vars

SpliceDates == {MonthEnd(m) : m \in 0..(SpliceMonths - 1)}
IsAscending(s) == \A i \in 1..(Len(s) - 1) : s[i].t < s[i + 1].t

\* the splice invariant of one instrument for a given cutover
SpliceInvariant(spliced, primary, secondary, cutover) ==
    /\ IsAscending(spliced)
    /\ \A i \in 1..Len(spliced) : spliced[i].t \in SpliceDates
    /\ \A t \in SpliceDates :
          IF t > cutover /\ HasRow(secondary, t) /\ ValueAt(secondary, t) # NaN
          THEN HasRow(spliced, t) /\ ValueAt(spliced, t) = ValueAt(secondary, t)
          ELSE /\ HasRow(spliced, t) <=> HasRow(primary, t)
               /\ HasRow(primary, t) => ValueAt(spliced, t) = ValueAt(primary, t)

LastValueDate(s) == DropNa(s)[Len(DropNa(s))].t

\* C4 as stated: each instrument is spliced at the last date on which its own
\* World Bank series has a value: the World Bank value up to and at that date,
\* the Yahoo value after it where Yahoo has one, else the World Bank row if
\* there is one, and nothing filled in.
C4_Original ==
    (pc = "spliced" /\ output.raised = "") =>
        /\ SpliceInvariant(output.gold_monthly, input.wb_gold, input.yf_gold_monthly,
                           LastValueDate(input.wb_gold))
        /\ Len(DropNa(input.wb_silver)) > 0 =>
              SpliceInvariant(output.silver_monthly, input.wb_silver,
                              input.yf_silver_monthly, LastValueDate(input.wb_silver))

\* C4 as amended: both instruments are spliced at one cutover, the last date
\* on which the World Bank gold series has a value; with that cutover the
\* splice invariant holds of gold and of silver.
C4_Amended ==
    (pc = "spliced" /\ output.raised = "") =>
        /\ output.wb_end_date = LastValueDate(input.wb_gold)
        /\ SpliceInvariant(output.gold_monthly, input.wb_gold, input.yf_gold_monthly,
                           LastValueDate(input.wb_gold))
        /\ SpliceInvariant(output.silver_monthly, input.wb_silver,
                           input.yf_silver_monthly, LastValueDate(input.wb_gold))

\* silver's own last World Bank value is earlier than gold's, Yahoo has values
\* at the cutover and after it, and the spliced silver takes the later one only
C4_Witness ==
    /\ pc = "spliced"
    /\ output.raised = ""
    /\ Len(DropNa(input.wb_silver)) > 0
    /\ LastValueDate(input.wb_silver) < output.wb_end_date
    /\ HasRow(input.yf_silver_monthly, output.wb_end_date)
    /\ ValueAt(input.yf_silver_monthly, output.wb_end_date) = Val(2)
    /\ ValueAt(output.silver_monthly, output.wb_end_date) = NaN
    /\ \E t \in SpliceDates :
          /\ t > output.wb_end_date
          /\ HasRow(output.silver_monthly, t)
          /\ ValueAt(output.silver_monthly, t) = Val(2)
          /\ ~HasRow(input.wb_silver, t)

(***************************************************************************)
(* The merge of load_all_data: the DataFrame of the five monthly series,   *)
(* the Recession column, and the dropna.                                   *)
(***************************************************************************)
SeriesColumns == <<"NASDAQ 6M %", "S&P 500 6M %", "Yield Spread", "Gold 6M %", "Silver 6M %">>

DROPNA_SUBSET_ALL == {"NASDAQ 6M %", "S&P 500 6M %", "Yield Spread"}

\* combined.dropna(subset=['NASDAQ 6M %', 'Yield Spread'])
DROPNA_SUBSET == {"NASDAQ 6M %", "Yield Spread"}

RECURSIVE SortDates(_)
SortDates(S) == IF S = {} THEN <<>> ELSE <<Min(S)>> \o SortDates(S \ {Min(S)})

\* the value a series gives a date of the joined index
Reindexed(s, t) == IF HasRow(s, t) THEN ValueAt(s, t) ELSE NaN

\* pd.DataFrame({name: series}): the sorted union of the indexes, NaN where a
\* series has no row
FrameRows(series, index) ==
    [k \in 1..Len(index) |->
        [t |-> index[k], cells |-> [c \in DOMAIN series |-> Reindexed(series[c], index[k])]]]

DataFrameOf(series) ==
    FrameRows(series,
              SortDates(UNION {{series[c][i].t : i \in 1..Len(series[c])} : c \in DOMAIN series}))

\* combined['Recession'] = recessions_monthly['USREC'], aligned on the index
\* of combined, or the constant 0 when the recession data could not be loaded
AddRecession(combined, recessions_monthly) ==
    [k \in 1..Len(combined) |->
        [t |-> combined[k].t,
         cells |-> [c \in DOMAIN combined[k].cells \cup {"Recession"} |->
                      IF c # "Recession" THEN combined[k].cells[c]
                      ELSE IF recessions_monthly.is_none THEN Val(0)
                      ELSE Reindexed(recessions_monthly.USREC, combined[k].t)]]]

DropNaSubset(combined, subset) ==
    SelectSeq(combined, LAMBDA row : \A c \in subset : row.cells[c] # NaN)

\* lines 253-268
Combine(series, recessions_monthly) ==
    DropNaSubset(AddRecession(DataFrameOf(series), recessions_monthly), DROPNA_SUBSET)

NoSeries == [c \in {SeriesColumns[i] : i \in 1..Len(SeriesColumns)} |-> <<>>]

\* what load_recession_data hands over: None, or the monthly USREC series
None == [is_none |-> TRUE, USREC |-> <<>>]
Loaded(s) == [is_none |-> FALSE, USREC |-> s]

CellChoices(c) ==
    IF c \in {"Gold 6M %", "Silver 6M %"} THEN {"absent", "value"}
    ELSE {"absent", "nan", "value"}

AllMonthEnds(n, v) == [k \in 1..n |-> [t |-> MonthEnd(k - 1), v |-> v]]

InitMerge ==
    /\ pc = "series"
    /\ input = [series |-> NoSeries, months |-> 0, recessions_monthly |-> None]
    /\ output = NoResult
    /\ fill_pad = FALSE
    /\ IdlePipeline

\* the next month-end: each series has no row for it, a row holding NaN, or
\* a row holding a value
AppendMonthEnd ==
    /\ pc = "series"
    /\ input.months < MergeMonths
    /\ \E cells \in [DOMAIN NoSeries -> {"absent", "nan", "value"}] :
          /\ \A c \in DOMAIN NoSeries : cells[c] \in CellChoices(c)
          /\ input' = [input EXCEPT
                 !.months = @ + 1,
                 !.series = [c \in DOMAIN NoSeries |->
                                IF cells[c] = "absent" THEN input.series[c]
                                ELSE Append(input.series[c],
                                            [t |-> MonthEnd(input.months),
                                             v |-> IF cells[c] = "nan" THEN NaN ELSE Val(1)])]]
    /\ UNCHANGED <<pc, output, fill_pad, pipeVars>>

\* load_recession_data returned (None, None), a series without rows, or a
\* series holding 1 at every month-end
CallCombine ==
    /\ pc = "series"
    /\ \E rec \in {None, Loaded(<<>>), Loaded(AllMonthEnds(MergeMonths, Val(1)))} :
          /\ input' = [input EXCEPT !.recessions_monthly = rec]
          /\ output' = Combine(input.series, rec)
    /\ pc' = "combined"
    /\ UNCHANGED <<fill_pad, pipeVars>>

NextMerge == AppendMonthEnd \/ CallCombine

SpecMerge == InitMerge /\ [][NextMerge]_vars

CandidateMonthEnds ==
    UNION {{input.series[c][i].t : i \in 1..Len(input.series[c])} : c \in DOMAIN input.series}

Present(c, t) == HasRow(input.series[c], t) /\ ValueAt(input.series[c], t) # NaN

Retained(t) == \E k \in 1..Len(output) : output[k].t = t

\* the rows of the returned table against a set of required columns: every
\* row has them all, a candidate date is retained exactly when it has them
\* all, and a retained row shows each series' value, NaN where it has none
MergeCompleteness(required) ==
    /\ \A k \in 1..Len(output) :
          /\ \A c \in required : output[k].cells[c] # NaN
          /\ \A c \in DOMAIN input.series :
                output[k].cells[c] = Reindexed(input.series[c], output[k].t)
          /\ k > 1 => output[k - 1].t < output[k].t
    /\ \A t \in CandidateMonthEnds : Retained(t) <=> \A c \in required : Present(c, t)
    /\ \A k \in 1..Len(output) : output[k].t \in CandidateMonthEnds

Keys == {"nasdaq.pkl", "sp500.pkl", "yf_gold.pkl", "yf_silver.pkl", "yields.pkl",
         "recessions.pkl"}

\* a cache file is absent (<<>>) or holds the pickle of a payload
NoEntry == <<>>
Pickle(data) == <<"pickle", data>>
Unpickle(blob) == blob[2]

\* what download_func() does when it is called: it raises, or returns data
Raises == [raised |-> TRUE, data |-> <<>>]
Returns(data) == [raised |-> FALSE, data |-> data]

load_or_download_always(files, cache_file, download_func) ==
    IF download_func.raised
    THEN [raised |-> TRUE, data |-> <<>>, files |-> files, downloaded |-> TRUE]
    ELSE [raised |-> FALSE, data |-> download_func.data,
          files |-> [files EXCEPT ![cache_file] = Pickle(download_func.data)],
          downloaded |-> TRUE]

\* the files of the cache directory after the call, what the call returned or
\* that it raised, and whether it called download_func
load_or_download(files, cache_file, download_func) ==
    IF files[cache_file] # NoEntry
    THEN [raised |-> FALSE, data |-> Unpickle(files[cache_file]), files |-> files,
          downloaded |-> FALSE]
    ELSE IF download_func.raised
    THEN [raised |-> TRUE, data |-> <<>>, files |-> files, downloaded |-> TRUE]
    ELSE [raised |-> FALSE, data |-> download_func.data,
          files |-> [files EXCEPT ![cache_file] = Pickle(download_func.data)],
          downloaded |-> TRUE]

\* What the callers of load_or_download have seen of one key: the calls of
\* download_func that returned, the payload the first returning call gave and
\* the latest call gave, the calls and downloads made while the entry existed,
\* whether the entry was written by a download in which a provider request
\* failed, and whether such a failure stayed hidden from the caller.
NoHistory ==
    [ok_fetches |-> 0, first |-> <<>>, last |-> <<>>, later_calls |-> 0,
     later_fetches |-> 0, poisoned |-> FALSE, hidden |-> FALSE]

Cap(n) == IF n > MaxRuns THEN MaxRuns ELSE n

Observed(h, files, cache_file, r, request_failed) ==
    LET had == files[cache_file] # NoEntry
        wrote == ~had /\ r.files[cache_file] # NoEntry
    IN  [ok_fetches |-> IF r.downloaded /\ ~r.raised THEN Cap(h.ok_fetches + 1)
                        ELSE h.ok_fetches,
         first |-> IF h.first = <<>> /\ ~r.raised THEN <<r.data>> ELSE h.first,
         last |-> IF r.raised THEN <<>> ELSE <<r.data>>,
         later_calls |-> IF had THEN Cap(h.later_calls + 1) ELSE h.later_calls,
         later_fetches |-> IF had /\ r.downloaded THEN Cap(h.later_fetches + 1)
                           ELSE h.later_fetches,
         poisoned |-> IF wrote THEN request_failed ELSE h.poisoned,
         hidden |-> h.hidden \/ (r.downloaded /\ request_failed /\ ~r.raised)]

(***************************************************************************)
(* The providers' answers.                                                 *)
(***************************************************************************)
\* a daily Close series: one observation on the 20th of each month from m0
Prices(vals, m0) ==
    [k \in 1..Len(vals) |-> [t |-> MonthStart(m0 + k - 1) + 19, v |-> Val(vals[k])]]

\* a monthly series dated at the month-ends from m0 (the workbook), or at the
\* first of the month (FRED's USREC)
AtMonthEnds(vals, m0) ==
    [k \in 1..Len(vals) |-> [t |-> MonthEnd(m0 + k - 1), v |-> vals[k]]]
AtMonthStarts(vals, m0) ==
    [k \in 1..Len(vals) |-> [t |-> MonthStart(m0 + k - 1), v |-> Val(vals[k])]]

NasdaqAnswers == {Prices(<<2, 2, 2, 2, 2, 2, 3, 3>>, 0), Prices(<<3, 3>>, 6)}
Sp500Answers == {Prices(<<3, 3, 3, 3, 3, 3, 2, 3>>, 0)}
YahooGoldAnswers == {Prices(<<2, 3, 3>>, 5), Prices(<<3, 2, 2>>, 5)}
YahooSilverAnswers == {Prices(<<3, 2, 2>>, 5)}
RecessionAnswers == {AtMonthStarts(<<0, 0, 0, 0, 0, 0, 1, 0>>, 0)}

Workbook ==
    [Gold |-> AtMonthEnds(<<Val(1), Val(1), Val(1), Val(1), Val(1), Val(2)>>, 0),
     Silver |-> AtMonthEnds(<<Val(2), Val(2), Val(2), Val(2), Val(2), Val(1)>>, 0)]

FredSeries ==
    [DGS2 |-> "2Y Treasury", DGS10 |-> "10Y Treasury", DGS3MO |-> "3M Treasury",
     DGS30 |-> "30Y Treasury"]

FredAnswer(series_id) ==
    CASE series_id = "DGS2" -> Prices(<<3, 3, 3, 3, 3, 3, 5, 3>>, 0)
      [] series_id = "DGS10" -> Prices(<<4, 4, 4, 4, 4, 4, 4, 4>>, 0)
      [] series_id = "DGS3MO" -> Prices(<<2, 2, 2, 2, 2, 2, 2, 2>>, 0)
      [] series_id = "DGS30" -> Prices(<<5, 5, 5, 5, 5, 5, 5, 5>>, 0)

\* What a download function would do in this call: with the entry in the
\* cache it is not called, and what the provider would answer plays no part.
Asked(files, cache_file, answers) ==
    IF files[cache_file] # NoEntry THEN {Raises}
    ELSE {Raises} \cup {Returns(d) : d \in answers}

(***************************************************************************)
(* The loaders.                                                            *)
(***************************************************************************)
\* load_nasdaq_data and load_sp500_data: the raw frame, its month-end Close,
\* and the 6-month percent change; a raise of load_or_download goes through
MarketData(files, cache_file, download, pad) ==
    LET r == load_or_download(files, cache_file, download)
        monthly == ResampleLast(r.data)
    IN  [raised |-> r.raised, files |-> r.files, lod |-> r,
         raw |-> r.data,
         monthly |-> IF r.raised THEN <<>> ELSE monthly,
         pct |-> IF r.raised THEN <<>> ELSE pct_change(monthly, PCT_PERIODS, pad)]

load_nasdaq_data(files, download, pad) == MarketData(files, "nasdaq.pkl", download, pad)
load_sp500_data(files, download, pad) == MarketData(files, "sp500.pkl", download, pad)

\* return pd.Series(dtype=float), ... : the four empty series of the except
EmptyMetals ==
    [gold_monthly |-> <<>>, gold_pct |-> <<>>, silver_monthly |-> <<>>, silver_pct |-> <<>>]

\* the World Bank columns, kept when the Yahoo download fails
PrimaryOnly(wb, pad) ==
    [gold_monthly |-> wb.Gold, gold_pct |-> pct_change(wb.Gold, PCT_PERIODS, pad),
     silver_monthly |-> wb.Silver, silver_pct |-> pct_change(wb.Silver, PCT_PERIODS, pad)]

\* except Exception as e: print the warning, return four empty series
OnMetalsException(wb, pad) == EmptyMetals

\* load_gold_silver_data: wb_exists is whether the workbook file is in the
\* cache directory, wb_download what urlretrieve does when called
load_gold_silver_data(files, wb_exists, wb_download, download_yf_gold, download_yf_silver, pad) ==
    LET wb_failed == ~wb_exists /\ wb_download.raised
        wb == IF wb_exists THEN Workbook ELSE wb_download.data
        r_gold == load_or_download(files, "yf_gold.pkl", download_yf_gold)
        r_silver == load_or_download(r_gold.files, "yf_silver.pkl", download_yf_silver)
        spliced == SpliceGoldSilver(wb.Gold, wb.Silver,
                                    ResampleLast(r_gold.data), ResampleLast(r_silver.data))
    IN  IF wb_failed
        THEN [files |-> files, wb_file |-> FALSE, warning |-> TRUE,
              primary |-> "failed", secondary |-> "not called",
              called |-> {}, r_gold |-> r_gold, r_silver |-> r_silver,
              ret |-> EmptyMetals]
        ELSE IF Len(DropNa(wb.Gold)) = 0
        THEN [files |-> files, wb_file |-> TRUE, warning |-> TRUE,
              primary |-> "failed", secondary |-> "not called",
              called |-> {}, r_gold |-> r_gold, r_silver |-> r_silver,
              ret |-> EmptyMetals]
        ELSE IF r_gold.raised
        THEN [files |-> files, wb_file |-> TRUE, warning |-> TRUE,
              primary |-> "loaded", secondary |-> "failed",
              called |-> {"yf_gold.pkl"}, r_gold |-> r_gold, r_silver |-> r_silver,
              ret |-> OnMetalsException(wb, pad)]
        ELSE IF r_silver.raised
        THEN [files |-> r_gold.files, wb_file |-> TRUE, warning |-> TRUE,
              primary |-> "loaded", secondary |-> "failed",
              called |-> {"yf_gold.pkl", "yf_silver.pkl"},
              r_gold |-> r_gold, r_silver |-> r_silver,
              ret |-> OnMetalsException(wb, pad)]
        ELSE IF spliced.raised # ""
        THEN [files |-> r_silver.files, wb_file |-> TRUE, warning |-> TRUE,
              primary |-> "failed", secondary |-> "loaded",
              called |-> {"yf_gold.pkl", "yf_silver.pkl"},
              r_gold |-> r_gold, r_silver |-> r_silver,
              ret |-> EmptyMetals]
        ELSE [files |-> r_silver.files, wb_file |-> TRUE, warning |-> FALSE,
              primary |-> "loaded", secondary |-> "loaded",
              called |-> {"yf_gold.pkl", "yf_silver.pkl"},
              r_gold |-> r_gold, r_silver |-> r_silver,
              ret |-> [gold_monthly |-> spliced.gold_monthly,
                       gold_pct |-> pct_change(spliced.gold_monthly, PCT_PERIODS, pad),
                       silver_monthly |-> spliced.silver_monthly,
                       silver_pct |-> pct_change(spliced.silver_monthly, PCT_PERIODS, pad)]]

\* load_yield_data.download: one request per FRED series; a failed request is
\* printed as a warning and its column left out of the frame that is returned
YieldDownload(answered) ==
    Returns([name \in {FredSeries[id] : id \in answered} |->
                FredAnswer(CHOOSE id \in answered : FredSeries[id] = name)])

Column(frame, c) == [k \in 1..Len(frame) |-> [t |-> frame[k].t, v |-> frame[k].cells[c]]]

\* a - b of two columns of one frame: NaN where either is
Minus(a, b) ==
    [k \in 1..Len(a) |->
        [t |-> a[k].t,
         v |-> IF a[k].v = NaN \/ b[k].v = NaN THEN NaN ELSE Val(Num(a[k].v) - Num(b[k].v))]]

\* load_yield_data: yields_df[...] raises KeyError for a column the cached or
\* downloaded frame does not have
load_yield_data(files, answered) ==
    LET r == load_or_download(files, "yields.pkl", YieldDownload(answered))
        yields_df == DataFrameOf(r.data)
        have == DOMAIN r.data
        ok == {"10Y Treasury", "2Y Treasury", "3M Treasury"} \subseteq have
    IN  [raised |-> IF ok THEN "" ELSE "KeyError",
         files |-> r.files, lod |-> r,
         yields_df |-> yields_df,
         spread_monthly |-> IF ok
                            THEN ResampleLast(Minus(Column(yields_df, "10Y Treasury"),
                                                    Column(yields_df, "2Y Treasury")))
                            ELSE <<>>]

\* Series.resample('ME').max()
ResampleMax(s) ==
    IF Len(s) = 0 THEN <<>>
    ELSE LET m0 == MonthOf(s[1].t)
             m1 == MonthOf(s[Len(s)].t)
             valid(m) == {Num(s[i].v) : i \in {j \in 1..Len(s) :
                                                  MonthOf(s[j].t) = m /\ s[j].v # NaN}}
         IN  [k \in 1..(m1 - m0 + 1) |->
                 LET m == m0 + k - 1
                 IN  [t |-> MonthEnd(m),
                      v |-> IF valid(m) = {} THEN NaN ELSE Val(Max(valid(m)))]]

\* load_recession_data: any exception is printed as a warning and answered
\* with (None, None)
load_recession_data(files, download) ==
    LET r == load_or_download(files, "recessions.pkl", download)
    IN  [files |-> r.files, lod |-> r, warning |-> r.raised,
         recessions_monthly |-> IF r.raised THEN None ELSE Loaded(ResampleMax(r.data))]

(***************************************************************************)
(* load_all_data, one step per loader, over a cache directory that starts  *)
(* empty and is kept from one run to the next.                             *)
(***************************************************************************)
NoLocals ==
    [nasdaq |-> <<>>, nasdaq_pct |-> <<>>, sp500 |-> <<>>, sp500_pct |-> <<>>,
     metals |-> EmptyMetals, primary |-> "", secondary |-> "",
     yields_df |-> <<>>, spread_monthly |-> <<>>,
     recessions_monthly |-> None, combined |-> <<>>, exception |-> ""]

Init ==
    /\ pc = "start"
    /\ input = <<>>
    /\ output = NoResult
    /\ fill_pad \in BOOLEAN
    /\ cache = [k \in Keys |-> NoEntry]
    /\ wb_file = FALSE
    /\ loc = NoLocals
    /\ warned = {}
    /\ hist = [k \in Keys |-> NoHistory]
    /\ runs = 0

\* python is started on the script again
StartRun ==
    /\ pc \in {"start", "returned", "raised"}
    /\ runs < MaxRuns
    /\ runs' = runs + 1
    /\ pc' = "nasdaq"
    /\ loc' = NoLocals
    /\ warned' = {}
    /\ output' = NoResult
    /\ UNCHANGED <<input, fill_pad, cache, wb_file, hist>>

\* line 247
LoadNasdaq ==
    /\ pc = "nasdaq"
    /\ \E download \in Asked(cache, "nasdaq.pkl", NasdaqAnswers) :
          LET r == load_nasdaq_data(cache, download, fill_pad)
          IN  /\ cache' = r.files
              /\ hist' = [hist EXCEPT !["nasdaq.pkl"] =
                              Observed(@, cache, "nasdaq.pkl", r.lod, download.raised)]
              /\ IF r.raised
                 THEN /\ pc' = "raised"
                      /\ loc' = [loc EXCEPT !.exception = "nasdaq download"]
                 ELSE /\ pc' = "sp500"
                      /\ loc' = [loc EXCEPT !.nasdaq = r.raw, !.nasdaq_pct = r.pct]
    /\ UNCHANGED <<input, output, fill_pad, wb_file, warned, runs>>

\* line 248
LoadSp500 ==
    /\ pc = "sp500"
    /\ \E download \in Asked(cache, "sp500.pkl", Sp500Answers) :
          LET r == load_sp500_data(cache, download, fill_pad)
          IN  /\ cache' = r.files
              /\ hist' = [hist EXCEPT !["sp500.pkl"] =
                              Observed(@, cache, "sp500.pkl", r.lod, download.raised)]
              /\ IF r.raised
                 THEN /\ pc' = "raised"
                      /\ loc' = [loc EXCEPT !.exception = "sp500 download"]
                 ELSE /\ pc' = "gold_silver"
                      /\ loc' = [loc EXCEPT !.sp500 = r.raw, !.sp500_pct = r.pct]
    /\ UNCHANGED <<input, output, fill_pad, wb_file, warned, runs>>

\* line 249
LoadGoldSilver ==
    /\ pc = "gold_silver"
    /\ \E wb_download \in (IF wb_file THEN {Raises} ELSE {Raises, Returns(Workbook)}),
          download_yf_gold \in Asked(cache, "yf_gold.pkl", YahooGoldAnswers),
          download_yf_silver \in Asked(cache, "yf_silver.pkl", YahooSilverAnswers) :
          LET r == load_gold_silver_data(cache, wb_file, wb_download, download_yf_gold,
                                         download_yf_silver, fill_pad)
          IN  /\ cache' = r.files
              /\ wb_file' = r.wb_file
              /\ hist' = [k \in Keys |->
                    IF k = "yf_gold.pkl" /\ k \in r.called
                    THEN Observed(hist[k], cache, k, r.r_gold, download_yf_gold.raised)
                    ELSE IF k = "yf_silver.pkl" /\ k \in r.called
                    THEN Observed(hist[k], r.r_gold.files, k, r.r_silver,
                                  download_yf_silver.raised)
                    ELSE hist[k]]
              /\ warned' = IF r.warning THEN warned \cup {"Gold/Silver"} ELSE warned
              /\ loc' = [loc EXCEPT !.metals = r.ret, !.primary = r.primary,
                                    !.secondary = r.secondary]
    /\ pc' = "yields"
    /\ UNCHANGED <<input, output, fill_pad, runs>>

\* line 250
LoadYield ==
    /\ pc = "yields"
    /\ \E answered \in (IF cache["yields.pkl"] # NoEntry THEN {DOMAIN FredSeries}
                         ELSE SUBSET DOMAIN FredSeries) :
          LET r == load_yield_data(cache, answered)
          IN  /\ cache' = r.files
              /\ hist' = [hist EXCEPT !["yields.pkl"] =
                              Observed(@, cache, "yields.pkl", r.lod,
                                       answered # DOMAIN FredSeries)]
              /\ warned' = IF r.lod.downloaded /\ answered # DOMAIN FredSeries
                           THEN warned \cup {"yields"} ELSE warned
              /\ IF r.raised # ""
                 THEN /\ pc' = "raised"
                      /\ loc' = [loc EXCEPT !.exception = r.raised]
                 ELSE /\ pc' = "recession"
                      /\ loc' = [loc EXCEPT !.yields_df = r.yields_df,
                                            !.spread_monthly = r.spread_monthly]
    /\ UNCHANGED <<input, output, fill_pad, wb_file, runs>>

\* line 251
LoadRecession ==
    /\ pc = "recession"
    /\ \E download \in Asked(cache, "recessions.pkl", RecessionAnswers) :
          LET r == load_recession_data(cache, download)
          IN  /\ cache' = r.files
              /\ hist' = [hist EXCEPT !["recessions.pkl"] =
                              Observed(@, cache, "recessions.pkl", r.lod, download.raised)]
              /\ warned' = IF r.warning THEN warned \cup {"recession"} ELSE warned
              /\ loc' = [loc EXCEPT !.recessions_monthly = r.recessions_monthly]
    /\ pc' = "combine"
    /\ UNCHANGED <<input, output, fill_pad, wb_file, runs>>

\* lines 253-268
CombineAll ==
    /\ pc = "combine"
    /\ loc' = [loc EXCEPT !.combined =
                  Combine([c \in DOMAIN NoSeries |->
                              CASE c = "NASDAQ 6M %" -> loc.nasdaq_pct
                                [] c = "S&P 500 6M %" -> loc.sp500_pct
                                [] c = "Yield Spread" -> loc.spread_monthly
                                [] c = "Gold 6M %" -> loc.metals.gold_pct
                                [] c = "Silver 6M %" -> loc.metals.silver_pct],
                          loc.recessions_monthly)]
    /\ pc' = "summary"
    /\ UNCHANGED <<input, output, fill_pad, cache, wb_file, warned, hist, runs>>

\* lines 270-281: nasdaq.index[0], sp500.index[0], yields_df.index[0] and
\* combined.index[0] raise IndexError on a frame without rows
Summary ==
    /\ pc = "summary"
    /\ IF Len(loc.nasdaq) = 0 \/ Len(loc.sp500) = 0 \/ Len(loc.yields_df) = 0
          \/ Len(loc.combined) = 0
       THEN /\ pc' = "raised"
            /\ loc' = [loc EXCEPT !.exception = "IndexError"]
            /\ output' = NoResult
       ELSE /\ pc' = "returned"
            /\ loc' = loc
            /\ output' = loc.combined
    /\ UNCHANGED <<input, fill_pad, cache, wb_file, warned, hist, runs>>

Next ==
    \/ StartRun
    \/ LoadNasdaq
    \/ LoadSp500
    \/ LoadGoldSilver
    \/ LoadYield
    \/ LoadRecession
    \/ CombineAll
    \/ Summary

Spec == Init /\ [][Next]_vars

\* C2: from an empty cache, the download function of a key returns at most
\* once, on the call that writes the entry; no call made while the entry
\* exists calls it, and every call that returns gives the payload the first
\* call returned, which is the payload the entry holds.
C2_CacheIdempotence ==
    \A k \in Keys :
        /\ hist[k].ok_fetches <= 1
        /\ hist[k].later_fetches = 0
        /\ cache[k] # NoEntry =>
              /\ hist[k].ok_fetches = 1
              /\ hist[k].first # <<>>
              /\ Unpickle(cache[k]) = hist[k].first[1]
        /\ hist[k].last # <<>> => hist[k].last = hist[k].first

\* a second call for a key found the entry and returned the first payload
C2_Witness ==
    \E k \in Keys :
        /\ hist[k].later_calls >= 1
        /\ hist[k].ok_fetches = 1
        /\ hist[k].last # <<>>
        /\ hist[k].last = hist[k].first

\* C3: no cache entry was written by a download in which a provider request
\* failed, and no such failure stayed hidden from the caller of
\* load_or_download.
C3_NoPoisonedEntry ==
    \A k \in Keys :
        /\ cache[k] # NoEntry => ~hist[k].poisoned
        /\ ~hist[k].hidden

SecondaryFailed == loc.primary = "loaded" /\ loc.secondary = "failed"

\* C5 as stated: with the workbook loaded and a Yahoo download failed,
\* load_gold_silver_data returns the World Bank series unmodified with a
\* warning, and the run goes on.
C5_Original ==
    SecondaryFailed =>
        /\ loc.metals.gold_monthly = Workbook.Gold
        /\ loc.metals.silver_monthly = Workbook.Silver
        /\ "Gold/Silver" \in warned
        /\ pc # "gold_silver"

\* C5 as amended: with the workbook loaded and a Yahoo download failed,
\* load_gold_silver_data returns four empty series, the World Bank series
\* discarded, with a warning, and the run goes on to the yield data: if it
\* ends with an exception, that is one of a later step.
C5_Amended ==
    SecondaryFailed =>
        /\ loc.metals = EmptyMetals
        /\ "Gold/Silver" \in warned
        /\ pc \in {"yields", "recession", "combine", "summary", "returned", "raised"}
        /\ pc = "raised" => loc.exception \in {"KeyError", "IndexError"}

\* a run whose Yahoo download failed returns a table with the metals missing
C5_Witness ==
    /\ SecondaryFailed
    /\ pc = "returned"
    /\ Len(output) > 0
    /\ \A k \in 1..Len(output) :
          output[k].cells["Gold 6M %"] = NaN /\ output[k].cells["Silver 6M %"] = NaN

\* C6: load_all_data never ends with an unhandled exception, whatever the
\* providers answer and whatever the cache holds.
C6_AlwaysCompletes == pc # "raised"

====
